---- MODULE Spec2Model ----
(***************************************************************************)
(* Top-to-bottom runs of the repository's notebooks:                       *)
(*   - the RAG pipeline notebook                                           *)
(*     (tips/llamaIndex/Snowflake_Cortex_RAG_Pipeline_Tutorial_with_       *)
(*     LlamaIndex.ipynb), with its CortexEmbedding / CortexLLM wrappers;   *)
(*   - the credit-card data-exploration notebook                           *)
(*     (tutorials/credit_card_approval_predictor/                          *)
(*     0_cc_approval_data_exploration_modin.ipynb).                        *)
(*   - the draft of the credit-card notebook (unnamed/part_000).           *)
(* A run is one notebook, executed cell by cell by one kernel.  Every call *)
(* that leaves the kernel (a SQL statement, a Snowpark or Snowpark-pandas  *)
(* request, a Cortex function) is an SDK call: it is issued, is in flight, *)
(* and then either completes or raises.                                    *)
(***************************************************************************)
EXTENDS Integers, Sequences, FiniteSets, Bags, TLC

VARIABLES
    notebook,           \* which notebook this run executes: "rag", "cc" or "draft"
    cell,               \* index of the current code cell in document order
    at,                 \* position inside the current cell ("start" = not begun)
    executed,           \* names of the code cells begun so far, in order
    error,              \* the uncaught exception that stopped the run
    inflight,           \* number of SDK calls issued and not yet completed
    stdout,             \* what the cells printed, in order
    active_session,     \* the environment's active session (0 = none)
    connections,        \* every session object that exists
    session,            \* notebook variable `session` (0 = unbound)
    used_sessions,      \* sessions through which an SDK call was issued
    \* ---- RAG notebook ----
    document_files, document_texts, document_chunks,   \* tables
    autoincrement,      \* next value of document_files.id
    split_text,         \* chunks SPLIT_TEXT_RECURSIVE_CHARACTER gives per document
    df_chunks, nodes, index,
    embed_model, cortex_llm, service_context,
    raw_question, raw_response, response,
    frame,              \* the wrapper method being executed, if any
    invocations,        \* every wrapper method invocation, in order
    calls,              \* every external Cortex function call, in order
    loop,               \* the coroutines given to the event loop, in order
    \* ---- credit-card data-exploration notebook ----
    application_record_df, credit_record_df,
    APPLICATION_RECORD, CREDIT_RECORD,                 \* tables
    analysis_df,        \* notebook variable `analysis_df`
    row_count,          \* notebook variable `row_count`
    count_after         \* the count printed by DROP_DUPLICATES

kernelVars == <<notebook, cell, at, executed, error, inflight, stdout>>
sessionVars == <<active_session, connections, session, used_sessions>>
tableVars == <<document_files, document_texts, document_chunks, autoincrement,
               split_text>>
indexVars == <<df_chunks, nodes, index>>
wrapperVars == <<embed_model, cortex_llm, service_context>>
queryVars == <<raw_question, raw_response, response>>
methodVars == <<frame, invocations, calls, loop>>
ragVars == <<tableVars, indexVars, wrapperVars, queryVars, methodVars>>
ccVars == <<application_record_df, credit_record_df, APPLICATION_RECORD,
           CREDIT_RECORD, analysis_df, row_count, count_after>>
vars == <<kernelVars, sessionVars, ragVars, ccVars>>

(***************************************************************************)
(* Bounds of the model.                                                    *)
(***************************************************************************)
\* wrapper method invocations in one run
MaxInvocations == 2
\* chunks SPLIT_TEXT_RECURSIVE_CHARACTER returns for one document
MaxChunks == 1

(***************************************************************************)
(* Values.                                                                 *)
(***************************************************************************)
NoSession == 0
NoError == [cell |-> "", exc |-> "none"]
NoFrame == [method |-> "none", self |-> 0, text |-> "", at |-> "none",
            exc |-> "none", caller |-> "none"]
Unbound == [bound |-> FALSE, session |-> 0]
NoValue == <<>>

\* What an SDK call can raise.  KeyboardInterrupt derives from BaseException,
\* the others from Exception.
ExceptionClasses == {"SnowparkSQLException"}
Raisable == ExceptionClasses \cup {"KeyboardInterrupt"}

RagCells == << "create-document-files-table", "insert-document-files",
               "create-document-texts-table", "create-document-chunks-table",
               "import-libraries", "get-active-session",
               "define-cortexembedding-class", "build-index",
               "define-cortexllm-class", "initialize-llm-predictor",
               "raw-input-example", "rag-output-example",
               "use-case-1", "use-case-2-code", "use-case-3-code" >>

\* The same cells with the session closed before the last write.
CcCellsCloseEarly ==
    << "PACKAGE_IMPORTS", "CREATE_SESSION", "IMPORT_CSVS_INTO_DFS",
       "APPLICATION_RECORD_DF", "CREDIT_REPORT_DF", "UPLOAD_TO_TABLES",
       "CREATE_AGE_IN_YEARS", "COUNT_TOTAL_ROWS", "DROP_DUPLICATES",
       "NUMERIC_COLUMNS", "SCHEMA_EXPLORATION", "CATEGORICAL_COLUMNS",
       "GET_UNIQUE_CATEGORIES", "AVG_INCOME_PER_INCOME_TYPE",
       "CLOSE_SESSION", "WRITE_TO_SNOWFLAKE", "REVIEW_TABLE_IN_SNOWFLAKE" >>

CcCells == << "PACKAGE_IMPORTS", "CREATE_SESSION", "IMPORT_CSVS_INTO_DFS",
              "APPLICATION_RECORD_DF", "CREDIT_REPORT_DF", "UPLOAD_TO_TABLES",
              "CREATE_AGE_IN_YEARS", "COUNT_TOTAL_ROWS", "DROP_DUPLICATES",
              "NUMERIC_COLUMNS", "SCHEMA_EXPLORATION", "CATEGORICAL_COLUMNS",
              "GET_UNIQUE_CATEGORIES", "AVG_INCOME_PER_INCOME_TYPE",
              "WRITE_TO_SNOWFLAKE", "REVIEW_TABLE_IN_SNOWFLAKE", "CLOSE_SESSION" >>

\* The draft of the credit-card notebook (unnamed/part_000).
DraftCells == << "PACKAGE_IMPORTS", "CREATE_SESSION", "IMPORT_CSVS_INTO_DFS",
                 "APPLICATION_RECORD_DF", "CREDIT_REPORT_DF", "UPLOAD_TO_TABLES",
                 "CREATE_AGE_IN_YEARS", "FIND_AVG_AGE_PER_GENDER_INCOME_TYPE",
                 "COUNT_TOTAL_ROWS", "DROP_DUPLICATES", "NUMERIC_COLUMNS",
                 "SCHEMA_EXPLORATION", "CATEGORICAL_COLUMNS",
                 "GET_UNIQUE_CATEGORIES", "AVG_INCOME_PER_INCOME_TYPE_GENDER",
                 "cell1", "WRITE_TO_SNOWFLAKE" >>

Cells == CASE notebook = "rag" -> RagCells
           [] notebook = "cc" -> CcCells
           [] OTHER -> DraftCells

\* The notebook is the credit-card notebook or its draft.
CreditCard == notebook \in {"cc", "draft"}

(***************************************************************************)
(* Names.  Binds(name): the names the cell imports, defines or assigns.    *)
(* Free(name): the names the cell reads without having bound them itself   *)
(* earlier in the cell (builtins left out).                                *)
(***************************************************************************)
Binds(name) ==
    CASE name = "import-libraries" ->
            {"snowpark", "Session", "LLMPredictor", "ServiceContext",
             "GPTVectorStoreIndex", "Node", "BaseEmbedding", "SimpleVectorStore", "List"}
      [] name = "get-active-session" -> {"session"}
      [] name = "define-cortexembedding-class" -> {"CortexEmbedding"}
      [] name = "build-index" ->
            {"df_chunks", "nodes", "idx", "row", "node", "embed_model",
             "vector_store", "index"}
      [] name = "define-cortexllm-class" -> {"LLM", "CortexLLM"}
      [] name = "initialize-llm-predictor" ->
            {"LLMPredictor", "ServiceContext", "cortex_llm", "llm_predictor",
             "service_context"}
      [] name = "raw-input-example" -> {"raw_question", "raw_response", "e"}
      [] name = "rag-output-example" -> {"response"}
      [] name = "use-case-1" -> {"question", "response"}
      [] name = "use-case-2-code" -> {"summary_prompt", "response"}
      [] name = "use-case-3-code" -> {"recommendation_prompt", "response"}
      [] name = "PACKAGE_IMPORTS" ->
            {"np", "F", "get_active_session", "spd", "snowflake"}
      [] name = "CREATE_SESSION" -> {"session"}
      [] name = "IMPORT_CSVS_INTO_DFS" -> {"application_record_df", "credit_record_df"}
      [] name = "FIND_AVG_AGE_PER_GENDER_INCOME_TYPE" ->
            {"grouped_df", "application_record_df"}
      [] name = "COUNT_TOTAL_ROWS" -> {"row_count"}
      [] name = "DROP_DUPLICATES" -> {"application_record_df"}
      [] name = "NUMERIC_COLUMNS" -> {"numerical_columns"}
      [] name = "CATEGORICAL_COLUMNS" -> {"categorical_columns"}
      [] name = "GET_UNIQUE_CATEGORIES" -> {"unique_values", "unique_values_df"}
      [] name \in {"AVG_INCOME_PER_INCOME_TYPE", "AVG_INCOME_PER_INCOME_TYPE_GENDER"} ->
            {"analysis_df"}
      [] name = "cell1" -> {"my_imputer", "snowpark_df"}
      [] OTHER -> {}

Free(name) ==
    CASE name = "get-active-session" -> {"snowpark"}
      [] name = "define-cortexembedding-class" -> {"BaseEmbedding", "List"}
      [] name = "build-index" ->
            {"session", "Node", "CortexEmbedding", "SimpleVectorStore",
             "GPTVectorStoreIndex"}
      [] name = "initialize-llm-predictor" -> {"CortexLLM", "session", "embed_model"}
      [] name = "raw-input-example" -> {"cortex_llm"}
      [] name = "rag-output-example" -> {"index", "raw_question", "service_context"}
      [] name \in {"use-case-1", "use-case-2-code", "use-case-3-code"} ->
            {"index", "service_context"}
      [] name = "CREATE_SESSION" -> {"get_active_session"}
      [] name = "IMPORT_CSVS_INTO_DFS" -> {"spd"}
      [] name = "APPLICATION_RECORD_DF" -> {"application_record_df"}
      [] name = "CREDIT_REPORT_DF" -> {"credit_record_df"}
      [] name = "UPLOAD_TO_TABLES" ->
            {"session", "application_record_df", "credit_record_df"}
      [] name = "CREATE_AGE_IN_YEARS" -> {"application_record_df", "spd", "np"}
      [] name \in {"FIND_AVG_AGE_PER_GENDER_INCOME_TYPE", "COUNT_TOTAL_ROWS",
                   "DROP_DUPLICATES", "NUMERIC_COLUMNS", "SCHEMA_EXPLORATION",
                   "CATEGORICAL_COLUMNS", "AVG_INCOME_PER_INCOME_TYPE",
                   "AVG_INCOME_PER_INCOME_TYPE_GENDER"} -> {"application_record_df"}
      [] name = "GET_UNIQUE_CATEGORIES" ->
            {"categorical_columns", "application_record_df", "spd"}
      [] name = "cell1" -> {"SimpleImputer", "snowpark_df"}
      [] name = "WRITE_TO_SNOWFLAKE" -> {"session", "application_record_df"}
      [] name = "CLOSE_SESSION" -> {"session"}
      [] OTHER -> {}

(***************************************************************************)
(* The kernel: one cell at a time, in document order; an uncaught exception *)
(* stops the run.                                                          *)
(***************************************************************************)
\* A kernel that runs on after an error, as "run all" with errors allowed does.
RunsOnAfterError == FALSE

Stopped == error.exc # "none"

CellName == IF cell <= Len(Cells) THEN Cells[cell] ELSE "end"

\* Texts the indexing library hands to the wrappers: a chunk's text while the
\* index is built, the question while a query is answered.
Texts == {IF CellName = "build-index" THEN "chunk" ELSE "question"}

\* The names bound by the cells that have run: every cell before the current
\* one has ended normally.
BoundNames == UNION {Binds(Cells[i]) : i \in 1..(cell - 1)}

\* Every name cell `name` reads is bound.
NamesBound(name) == Free(name) \subseteq BoundNames

\* The kernel is about to run cell `name`, and the cell's names resolve.
Ready(name) == ~Stopped /\ CellName = name /\ at = "start" /\ NamesBound(name)

\* The kernel is inside cell `name` at position `pos`.
Inside(name, pos) == ~Stopped /\ CellName = name /\ at = pos

Begin == executed' = Append(executed, CellName)

\* The cell ends normally: the kernel moves to the next code cell.
EndCell == cell' = cell + 1 /\ at' = "start" /\ error' = error

\* An exception leaves the cell: the run stops there.
Uncaught(exc) == error' = [cell |-> CellName, exc |-> exc]
                 /\ cell' = cell /\ at' = at

\* The cell reads a name that nothing has bound: Python raises NameError at
\* that statement and the run stops in the cell.
NameError ==
    /\ ~Stopped /\ at = "start" /\ cell <= Len(Cells)
    /\ ~NamesBound(CellName)
    /\ Begin
    /\ at' = "raise" /\ cell' = cell
    /\ error' = [cell |-> CellName, exc |-> "NameError"]
    /\ UNCHANGED <<notebook, inflight, stdout, sessionVars, ragVars, ccVars>>

(***************************************************************************)
(* Sessions.                                                               *)
(***************************************************************************)
\* A session object that does not exist yet.
NewSession == 1 + Cardinality(connections)

\* snowpark.Session.builder.getOrCreate(): the active session when there is
\* one, a newly created session otherwise.
getOrCreate == IF active_session # NoSession THEN active_session ELSE NewSession

\* Session.builder.create(): always a new connection.
builder_create == NewSession

\* session = snowpark.Session.builder.getOrCreate()
SessionBuilder == getOrCreate

(***************************************************************************)
(* RAG notebook, data preparation (SQL cells).  A SQL cell is one          *)
(* statement, submitted through the notebook's active session.             *)
(***************************************************************************)
NoTable == [exists |-> FALSE, rows |-> <<>>]
Table(rows) == [exists |-> TRUE, rows |-> rows]

SqlCells == {"create-document-files-table", "insert-document-files",
             "create-document-texts-table", "create-document-chunks-table"}

SubmitSql ==
    /\ notebook = "rag"
    /\ \E name \in SqlCells : Ready(name)
    /\ Begin
    /\ at' = "sql"
    /\ inflight' = inflight + 1
    /\ used_sessions' = used_sessions \cup {active_session}
    /\ UNCHANGED <<notebook, ccVars, cell, error, stdout, active_session, connections,
                   session, ragVars>>

\* The statement of the current SQL cell completes.
SqlDone == inflight' = inflight - 1 /\ EndCell
           /\ UNCHANGED <<notebook, ccVars, executed, stdout, sessionVars>>

\* CREATE TABLE IF NOT EXISTS: a table that exists is left as it is.
CreateIfNotExists(table) == IF table.exists THEN table ELSE Table(<<>>)

\* CREATE OR REPLACE TABLE: a new, empty table, whatever was there.
CreateOrReplace(table) == Table(<<>>)

\* CREATE OR REPLACE TABLE document_files (id INT AUTOINCREMENT, ...)
create_document_files_table ==
    /\ Inside("create-document-files-table", "sql")
    /\ document_files' = CreateOrReplace(document_files)
    /\ autoincrement' = 1
    /\ SqlDone
    /\ UNCHANGED <<document_texts, document_chunks, indexVars, wrapperVars,
                   queryVars, methodVars,
                   split_text>>

InsertedFiles == << [file_name |-> "document1.pdf", file_url |-> "s3://your-bucket/document1.pdf"],
                    [file_name |-> "document2.pdf", file_url |-> "s3://your-bucket/document2.pdf"],
                    [file_name |-> "document3.pdf", file_url |-> "s3://your-bucket/document3.pdf"] >>

FileUrls == {InsertedFiles[k].file_url : k \in 1..Len(InsertedFiles)}

\* INSERT INTO document_files (file_name, file_url) VALUES (...), (...), (...)
insert_document_files ==
    /\ Inside("insert-document-files", "sql")
    /\ document_files.exists
    /\ document_files' = Table(document_files.rows \o
          [k \in 1..Len(InsertedFiles) |->
              [id |-> autoincrement + k - 1,
               file_name |-> InsertedFiles[k].file_name,
               file_url |-> InsertedFiles[k].file_url]])
    /\ autoincrement' = autoincrement + Len(InsertedFiles)
    /\ SqlDone
    /\ UNCHANGED <<document_texts, document_chunks, indexVars, wrapperVars,
                   queryVars, methodVars,
                   split_text>>

\* PARSE_DOCUMENT(FILE => file_url, ...): the text extracted from the file.
PARSE_DOCUMENT(file_url) == <<"text of", file_url>>

\* CREATE OR REPLACE TABLE document_texts AS SELECT id, PARSE_DOCUMENT(...) FROM document_files
create_document_texts_table ==
    /\ Inside("create-document-texts-table", "sql")
    /\ document_files.exists
    /\ document_texts' = Table(
          [k \in 1..Len(document_files.rows) |->
              [id |-> document_files.rows[k].id,
               content |-> PARSE_DOCUMENT(document_files.rows[k].file_url)]])
    /\ SqlDone
    /\ UNCHANGED <<document_files, autoincrement, document_chunks, indexVars,
                   wrapperVars, queryVars, methodVars,
                   split_text>>

\* SPLIT_TEXT_RECURSIVE_CHARACTER(TEXT => content, CHUNK_LENGTH => 500,
\* CHUNK_OVERLAP => 50): the array of chunks.  How many chunks a text gives is
\* the function's choice (split_text), the same each time it is applied.
SPLIT_TEXT_RECURSIVE_CHARACTER(content) ==
    [k \in 1..split_text[content[2]] |-> <<"chunk", k, content>>]

\* SEQ4() OVER (PARTITION BY id ORDER BY SEQ4()) for the k-th array element
\* of document id: a value of the data platform's choosing, left
\* uninterpreted.
SEQ4_OVER(id, k) == <<"SEQ4", id, k>>

\* The rows LATERAL FLATTEN(input => chunks) yields for one row (id, chunks).
ChunkRows(id, chunks) ==
    [k \in 1..Len(chunks) |->
        [ID |-> id, CHUNK_ID |-> SEQ4_OVER(id, k), CHUNK_TEXT |-> chunks[k]]]

RECURSIVE Flatten(_, _)
Flatten(rows, k) ==
    IF k > Len(rows) THEN <<>>
    ELSE ChunkRows(rows[k].id, SPLIT_TEXT_RECURSIVE_CHARACTER(rows[k].content))
         \o Flatten(rows, k + 1)

\* CREATE OR REPLACE TABLE document_chunks AS SELECT ... FROM (SELECT id,
\* SPLIT_TEXT_RECURSIVE_CHARACTER(...) FROM document_texts), LATERAL FLATTEN(...)
create_document_chunks_table ==
    /\ Inside("create-document-chunks-table", "sql")
    /\ document_texts.exists
    /\ document_chunks' = Table(Flatten(document_texts.rows, 1))
    /\ SqlDone
    /\ UNCHANGED <<document_files, autoincrement, document_texts, indexVars,
                   wrapperVars, queryVars, methodVars,
                   split_text>>

\* The data-preparation cells are run again, in order, before the Python
\* cells are run.
RunAgain ==
    /\ notebook = "rag"
    /\ Ready("import-libraries")
    /\ cell' = 1 /\ executed' = <<>>
    /\ UNCHANGED <<notebook, ccVars, at, error, inflight, stdout, sessionVars, ragVars>>

\* An SDK call made directly by a cell raises: nothing catches it.
SdkCallFails ==
    /\ ~Stopped
    /\ at \in {"sql", "sdk", "sdk2"}
    /\ inflight > 0
    /\ inflight' = inflight - 1
    /\ \E exc \in Raisable : Uncaught(exc)
    /\ UNCHANGED <<notebook, ccVars, executed, stdout, sessionVars, ragVars>>

(***************************************************************************)
(* RAG notebook, the CortexEmbedding and CortexLLM wrappers.               *)
(***************************************************************************)
\* result_df.collect_nowait(): the caller goes on while the query runs.
collect_nowait == "returned"

\* result_df.collect(): the caller is blocked until the query has run.
collect == "blocked"

\* A cached variant: a text already sent is not sent again.
EmbedRequestsCached(self, text) ==
    IF \E k \in 1..Len(calls) : calls[k].fn = "CORTEX_EMBED" /\ calls[k].rows = <<text>>
    THEN <<>>
    ELSE << [fn |-> "CORTEX_EMBED", rows |-> <<text>>, session |-> self] >>

\* CortexEmbedding.get_text_embedding: the external function calls its body
\* issues: CORTEX_EMBED over the dataframe [[text]], through self.session.
EmbedRequests(self, text) ==
    << [fn |-> "CORTEX_EMBED", rows |-> <<text>>, session |-> self] >>

\* CortexLLM.generate: CORTEX_GENERATE_TEXT over the dataframe [[prompt]].
GenerateRequests(self, prompt) ==
    << [fn |-> "CORTEX_GENERATE_TEXT", rows |-> <<prompt>>, session |-> self] >>

\* result[0]["EMBEDDING"] / result[0]["RESPONSE"] of the one-row result.
ResultOf(method, text) ==
    IF method = "get_text_embedding" THEN <<"EMBEDDING", text>>
    ELSE <<"RESPONSE", text>>

\* A method that would run the call again after a failure.
RetryOnError(f, exc) == [f EXCEPT !.at = "entered"]

\* The wrappers have no try/except: an exception raised by collect() leaves
\* the method.
OnCollectError(f, exc) == [f EXCEPT !.at = "raised", !.exc = exc]

Last == Len(invocations)

\* A caller invokes self.method(text).
Invoke(method, self, text, caller) ==
    /\ frame' = [method |-> method, self |-> self, text |-> text,
                 at |-> "entered", exc |-> "none", caller |-> caller]
    /\ invocations' = Append(invocations,
          [method |-> method, text |-> text, caller |-> caller, calls |-> 0,
           outcome |-> "pending", value |-> NoValue, exc |-> "none"])

\* The body of a wrapper method up to collect(): it builds the one-row
\* dataframe, selects the Cortex function over it and sends the query.
Issue(reqs) ==
    /\ calls' = calls \o reqs
    /\ inflight' = inflight + Len(reqs)
    /\ used_sessions' = used_sessions \cup {reqs[k].session : k \in 1..Len(reqs)}
    /\ invocations' = [invocations EXCEPT ![Last].calls = @ + Len(reqs),
          ![Last].outcome = IF reqs = <<>> THEN "returned" ELSE @,
          ![Last].value = IF reqs = <<>> THEN ResultOf(frame.method, frame.text) ELSE @]
    /\ frame' = [frame EXCEPT !.at = IF reqs = <<>> THEN "returned" ELSE collect]
    /\ UNCHANGED <<notebook, ccVars, cell, at, executed, error, stdout, active_session,
                   connections, session, tableVars, indexVars, wrapperVars, queryVars,
                   loop>>

get_text_embedding ==
    /\ ~Stopped
    /\ frame.method = "get_text_embedding" /\ frame.at = "entered"
    /\ Issue(EmbedRequests(frame.self, frame.text))

generate ==
    /\ ~Stopped
    /\ frame.method = "generate" /\ frame.at = "entered"
    /\ Issue(GenerateRequests(frame.self, frame.text))

\* The Cortex function call completes: the method returns the result's value.
CortexCompletes ==
    /\ ~Stopped
    /\ frame.at = "blocked" /\ inflight > 0
    /\ inflight' = inflight - 1
    /\ frame' = [frame EXCEPT !.at = "returned"]
    /\ invocations' = [invocations EXCEPT ![Last].outcome = "returned",
                          ![Last].value = ResultOf(frame.method, frame.text)]
    /\ UNCHANGED <<notebook, ccVars, cell, at, executed, error, stdout, sessionVars,
                   tableVars, indexVars, wrapperVars, queryVars, calls,
                   loop>>

\* The Cortex function call fails: collect() raises inside the method.
CortexFails ==
    /\ ~Stopped
    /\ frame.at = "blocked" /\ inflight > 0
    /\ inflight' = inflight - 1
    /\ \E exc \in Raisable :
          /\ frame' = OnCollectError(frame, exc)
          /\ invocations' = [invocations EXCEPT
                ![Last].outcome = IF frame'.at = "raised" THEN "raised" ELSE @,
                ![Last].exc = IF frame'.at = "raised" THEN exc ELSE @]
    /\ UNCHANGED <<notebook, ccVars, cell, at, executed, error, stdout, sessionVars,
                   tableVars, indexVars, wrapperVars, queryVars, calls,
                   loop>>

(***************************************************************************)
(* The indexing library (GPTVectorStoreIndex(...), index.query(...)) is a  *)
(* caller of the wrappers: while it runs it may invoke them, with texts of *)
(* its choice, and it hands an exception of theirs on to the cell.         *)
(***************************************************************************)
LibraryMethods ==
    {"get_text_embedding"} \cup
    (IF service_context.bound THEN {"generate"} ELSE {})

SelfOf(method) ==
    IF method = "get_text_embedding" THEN embed_model.session ELSE cortex_llm.session

LibraryInvokes ==
    /\ ~Stopped
    /\ at = "lib" /\ frame = NoFrame
    /\ Len(invocations) < MaxInvocations
    /\ \E method \in LibraryMethods, text \in Texts :
          Invoke(method, SelfOf(method), text, "lib")
    /\ UNCHANGED <<kernelVars, ccVars, sessionVars, tableVars, indexVars, wrapperVars,
                   queryVars, calls,
                   loop>>

LibraryReceives ==
    /\ ~Stopped
    /\ frame.caller = "lib" /\ frame.at = "returned"
    /\ frame' = NoFrame
    /\ UNCHANGED <<kernelVars, ccVars, sessionVars, tableVars, indexVars, wrapperVars,
                   queryVars, invocations, calls,
                   loop>>

LibraryPropagates ==
    /\ ~Stopped
    /\ frame.caller = "lib" /\ frame.at = "raised"
    /\ frame' = NoFrame
    /\ Uncaught(frame.exc)
    /\ UNCHANGED <<notebook, ccVars, executed, inflight, stdout, sessionVars, tableVars,
                   indexVars, wrapperVars, queryVars, invocations, calls,
                   loop>>

(***************************************************************************)
(* CortexEmbedding.aget_text_embedding.  Calling it makes a coroutine; the *)
(* event loop runs a coroutine until it returns, raises or reaches an      *)
(* await, and only then can the library or another coroutine go on.        *)
(***************************************************************************)
Coroutine(text) ==
    [text |-> text, state |-> "scheduled", invocation |-> 0, value |-> NoValue]

\* A body that awaits the call, as `await loop.run_in_executor(...)` would.
awaits_the_call == TRUE

\* The body of aget_text_embedding is `return self.get_text_embedding(text)`:
\* it has no await.
aget_text_embedding_awaits == FALSE

\* The coroutine being run has given control back to the event loop.
Suspended ==
    aget_text_embedding_awaits /\ frame.caller = "aget" /\ frame.at = "blocked"

Unstarted == {i \in 1..Len(loop) : loop[i].state = "scheduled"}
Running == {i \in 1..Len(loop) : loop[i].state = "running"}
AllAwaited == \A i \in 1..Len(loop) : loop[i].state = "done"

\* The library calls embed_model.aget_text_embedding(text) and hands the
\* coroutine to the event loop.
LibrarySchedules ==
    /\ ~Stopped
    /\ at = "lib"
    /\ frame = NoFrame \/ Suspended
    /\ Len(invocations) + Cardinality(Unstarted) < MaxInvocations
    /\ \E text \in Texts : loop' = Append(loop, Coroutine(text))
    /\ UNCHANGED <<kernelVars, ccVars, sessionVars, tableVars, indexVars, wrapperVars,
                   queryVars, frame, invocations, calls>>

\* The event loop runs the oldest coroutine not yet started: its body calls
\* self.get_text_embedding(text).
aget_text_embedding ==
    /\ ~Stopped
    /\ at = "lib"
    /\ frame = NoFrame \/ Suspended
    /\ \E i \in Unstarted :
          /\ \A j \in Unstarted : i <= j
          /\ Invoke("get_text_embedding", embed_model.session, loop[i].text, "aget")
          /\ loop' = [loop EXCEPT ![i].state = "running",
                                  ![i].invocation = Len(invocations) + 1]
    /\ UNCHANGED <<kernelVars, ccVars, sessionVars, tableVars, indexVars, wrapperVars,
                   queryVars, calls>>

\* get_text_embedding returned: the coroutine returns its value.
aget_text_embedding_return ==
    /\ ~Stopped
    /\ frame.caller = "aget" /\ frame.at = "returned"
    /\ loop' = [i \in 1..Len(loop) |->
                  IF loop[i].state = "running" /\ loop[i].invocation = Last
                  THEN [loop[i] EXCEPT !.state = "done", !.value = invocations[Last].value]
                  ELSE loop[i]]
    /\ frame' = NoFrame
    /\ UNCHANGED <<kernelVars, ccVars, sessionVars, tableVars, indexVars, wrapperVars,
                   queryVars, invocations, calls>>

\* get_text_embedding raised: the exception leaves the coroutine and reaches
\* the cell through the library that awaits it.
aget_text_embedding_raise ==
    /\ ~Stopped
    /\ frame.caller = "aget" /\ frame.at = "raised"
    /\ loop' = [i \in 1..Len(loop) |->
                  IF loop[i].state = "running" /\ loop[i].invocation = Last
                  THEN [loop[i] EXCEPT !.state = "failed"]
                  ELSE loop[i]]
    /\ frame' = NoFrame
    /\ Uncaught(frame.exc)
    /\ UNCHANGED <<notebook, ccVars, executed, inflight, stdout, sessionVars, tableVars,
                   indexVars, wrapperVars, queryVars, invocations, calls>>

(***************************************************************************)
(* RAG notebook, the Python cells.                                         *)
(***************************************************************************)
\* Cells that only import or define: nothing leaves the kernel.
DefinitionCells == {"import-libraries", "define-cortexembedding-class",
                    "define-cortexllm-class"}

definition_cell ==
    /\ notebook = "rag"
    /\ \E name \in DefinitionCells : Ready(name)
    /\ Begin /\ EndCell
    /\ UNCHANGED <<notebook, ccVars, inflight, stdout, sessionVars, ragVars>>

\* session = snowpark.Session.builder.getOrCreate()
get_active_session ==
    /\ notebook = "rag"
    /\ Ready("get-active-session")
    /\ session' = SessionBuilder
    /\ connections' = connections \cup {session'}
    /\ Begin /\ EndCell
    /\ UNCHANGED <<notebook, ccVars, inflight, stdout, active_session, used_sessions, ragVars>>

\* df_chunks = session.table("DOCUMENT_CHUNKS").to_pandas()
build_index ==
    /\ Ready("build-index")
    /\ Begin
    /\ at' = "sdk"
    /\ inflight' = inflight + 1
    /\ used_sessions' = used_sessions \cup {session}
    /\ UNCHANGED <<notebook, ccVars, cell, error, stdout, active_session, connections,
                   session, ragVars>>

\* A node that does not carry the row's ID.
NodeWithoutId(row) ==
    [text |-> row.CHUNK_TEXT, doc_id |-> <<"str", 0>>,
     extra_info |-> [chunk_id |-> row.CHUNK_ID]]

\* Node(text=row['CHUNK_TEXT'], doc_id=str(row['ID']),
\*      extra_info={'chunk_id': row['CHUNK_ID']})
Node(row) ==
    [text |-> row.CHUNK_TEXT, doc_id |-> <<"str", row.ID>>,
     extra_info |-> [chunk_id |-> row.CHUNK_ID]]

\* CortexEmbedding(session=session) / CortexLLM(session=session)
Wrapper(s) == [bound |-> TRUE, session |-> s]

\* to_pandas() returns; the loop builds the nodes; the embedding model is
\* created and GPTVectorStoreIndex(nodes, embed_model=...) is entered.
build_index_nodes ==
    /\ Inside("build-index", "sdk")
    /\ document_chunks.exists
    /\ inflight' = inflight - 1
    /\ df_chunks' = document_chunks.rows
    /\ nodes' = [k \in 1..Len(df_chunks') |-> Node(df_chunks'[k])]
    /\ embed_model' = Wrapper(session)
    /\ at' = "lib"
    /\ UNCHANGED <<notebook, ccVars, cell, executed, error, stdout, sessionVars,
                   tableVars, index, cortex_llm, service_context, queryVars,
                   methodVars>>

\* GPTVectorStoreIndex(...) returns: index is bound and the cell ends.
build_index_done ==
    /\ Inside("build-index", "lib")
    /\ frame = NoFrame /\ AllAwaited
    /\ index' = [bound |-> TRUE, nodes |-> nodes]
    /\ EndCell
    /\ UNCHANGED <<notebook, ccVars, executed, inflight, stdout, sessionVars, tableVars,
                   df_chunks, nodes, wrapperVars, queryVars, methodVars>>

\* cortex_llm = CortexLLM(session=session); llm_predictor; service_context
initialize_llm_predictor ==
    /\ Ready("initialize-llm-predictor")
    /\ cortex_llm' = Wrapper(session)
    /\ service_context' = [bound |-> TRUE, llm |-> cortex_llm'.session,
                           embed |-> embed_model.session]
    /\ Begin /\ EndCell
    /\ UNCHANGED <<notebook, ccVars, inflight, stdout, sessionVars, tableVars, indexVars,
                   embed_model, queryVars, methodVars>>

\* except Exception as e: the classes the clause catches.
except_Exception(exc) == exc \in ExceptionClasses

\* A narrower clause, as `except ValueError` would be.
except_ValueError(exc) == exc = "ValueError"

\* The except clause of the raw-input cell.
RawInputCatches(exc) == except_Exception(exc)

\* raw_question = "What is Snowflake?"; print; try: cortex_llm.generate(raw_question)
raw_input_example ==
    /\ Ready("raw-input-example")
    /\ Begin
    /\ raw_question' = "What is Snowflake?"
    /\ stdout' = Append(stdout, "Raw Question:")
    /\ at' = "try"
    /\ Invoke("generate", cortex_llm.session, raw_question', "try")
    /\ UNCHANGED <<notebook, ccVars, cell, error, inflight, sessionVars, tableVars,
                   indexVars, wrapperVars, raw_response, response, calls,
                   loop>>

\* raw_response = ...; print("Raw Response:", raw_response)
raw_input_example_response ==
    /\ Inside("raw-input-example", "try")
    /\ frame.caller = "try" /\ frame.at = "returned"
    /\ raw_response' = invocations[Last].value
    /\ stdout' = Append(stdout, "Raw Response:")
    /\ frame' = NoFrame
    /\ EndCell
    /\ UNCHANGED <<notebook, ccVars, executed, inflight, sessionVars, tableVars, indexVars,
                   wrapperVars, raw_question, response, invocations, calls,
                   loop>>

\* except Exception as e: print("Error generating response:", e)
raw_input_example_except ==
    /\ Inside("raw-input-example", "try")
    /\ frame.caller = "try" /\ frame.at = "raised"
    /\ RawInputCatches(frame.exc)
    /\ stdout' = Append(stdout, "Error generating response:")
    /\ frame' = NoFrame
    /\ EndCell
    /\ UNCHANGED <<notebook, ccVars, executed, inflight, sessionVars, tableVars, indexVars,
                   wrapperVars, queryVars, invocations, calls,
                   loop>>

\* What the except clause does not catch leaves the cell.
raw_input_example_uncaught ==
    /\ Inside("raw-input-example", "try")
    /\ frame.caller = "try" /\ frame.at = "raised"
    /\ ~RawInputCatches(frame.exc)
    /\ frame' = NoFrame
    /\ Uncaught(frame.exc)
    /\ UNCHANGED <<notebook, ccVars, executed, inflight, stdout, sessionVars, tableVars,
                   indexVars, wrapperVars, queryVars, invocations, calls,
                   loop>>

\* The question each query cell passes to index.query.
Question(name) ==
    CASE name = "rag-output-example" -> raw_question
      [] name = "use-case-1" -> "How does Snowflake Cortex help with AI applications?"
      [] name = "use-case-2-code" -> "Summarize the key features of LlamaIndex."
      [] OTHER -> "What are the next steps for integrating AI capabilities in our data platform?"

Printed(name) ==
    CASE name = "rag-output-example" -> "RAG Response:"
      [] name = "use-case-1" -> "Use Case 1 Response:"
      [] name = "use-case-2-code" -> "Use Case 2 Response:"
      [] OTHER -> "Use Case 3 Response:"

QueryCells == {"rag-output-example", "use-case-1", "use-case-2-code", "use-case-3-code"}

\* response = index.query(question, service_context=service_context): entered
index_query ==
    /\ notebook = "rag"
    /\ \E name \in QueryCells : Ready(name)
    /\ index.bound /\ service_context.bound
    /\ Begin
    /\ at' = "lib"
    /\ UNCHANGED <<notebook, ccVars, cell, error, inflight, stdout, sessionVars, ragVars>>

\* index.query returns; print(..., response)
index_query_done ==
    /\ \E name \in QueryCells : Inside(name, "lib")
    /\ frame = NoFrame /\ AllAwaited
    /\ response' = <<"answer to", Question(CellName)>>
    /\ stdout' = Append(stdout, Printed(CellName))
    /\ EndCell
    /\ UNCHANGED <<notebook, ccVars, executed, inflight, sessionVars, tableVars, indexVars,
                   wrapperVars, raw_question, raw_response, methodVars>>

(***************************************************************************)
(* Credit-card notebook: dataframes.  A dataframe is the sequence of its   *)
(* rows; a cell value is tagged with its kind: an integer, the text of an  *)
(* integer, any other text, or a missing value (NaN / NULL).  A row whose  *)
(* dataframe has no AGE column carries AGE = Absent.                       *)
(***************************************************************************)
\* rows of a dataframe read from a CSV file
MaxRows == 2

Int_(n) == [k |-> "int", v |-> n]
NumText(n) == [k |-> "numtext", v |-> n]
Text == [k |-> "text", v |-> 0]
NaN == [k |-> "nan", v |-> 0]
Absent == [k |-> "absent", v |-> 0]

Ids == {5008804, 5008805}
DaysBirthValues == {Int_(-731), Int_(0), NumText(400), Text}
IncomeTypes == {"Working"}

\* Rows whose DAYS_BIRTH varies.  A dataframe without an AVG_AGE column
\* carries AVG_AGE = Absent.
BirthRows ==
    [ID : Ids, DAYS_BIRTH : DaysBirthValues, NAME_INCOME_TYPE : IncomeTypes,
     CODE_GENDER : {"F"}, AMT_INCOME_TOTAL : {Int_(100)}, AGE : {Absent},
     AVG_AGE : {Absent}]

\* Rows whose income type, gender, income and (numeric) DAYS_BIRTH vary.
IncomeProfiles ==
    { [NAME_INCOME_TYPE |-> "Working", CODE_GENDER |-> "F",
       AMT_INCOME_TOTAL |-> Int_(100), DAYS_BIRTH |-> Int_(-731)],
      [NAME_INCOME_TYPE |-> "Working", CODE_GENDER |-> "F",
       AMT_INCOME_TOTAL |-> Int_(300), DAYS_BIRTH |-> Int_(0)],
      [NAME_INCOME_TYPE |-> "Working", CODE_GENDER |-> "M",
       AMT_INCOME_TOTAL |-> Int_(300), DAYS_BIRTH |-> NumText(400)],
      [NAME_INCOME_TYPE |-> "Pensioner", CODE_GENDER |-> "F",
       AMT_INCOME_TOTAL |-> Int_(300), DAYS_BIRTH |-> Int_(-731)] }

IncomeRows ==
    { [ID |-> i, DAYS_BIRTH |-> p.DAYS_BIRTH, NAME_INCOME_TYPE |-> p.NAME_INCOME_TYPE,
       CODE_GENDER |-> p.CODE_GENDER, AMT_INCOME_TOTAL |-> p.AMT_INCOME_TOTAL,
       AGE |-> Absent, AVG_AGE |-> Absent] : i \in Ids, p \in IncomeProfiles }

ApplicationRows == BirthRows \cup IncomeRows

SeqsUpTo(S, n) == UNION {[1..m -> S] : m \in 0..n}

\* What application_record.csv.zip can hold.
ApplicationFrames == SeqsUpTo(BirthRows, MaxRows) \cup SeqsUpTo(IncomeRows, MaxRows)

\* What credit_record.csv.zip can hold.
CreditFrames == { << [ID |-> 5008804, STATUS |-> "C"] >>,
                  << [ID |-> 5008804, STATUS |-> "C"], [ID |-> 5008805, STATUS |-> "X"] >> }

RECURSIVE SeqToBag(_)
SeqToBag(rows) ==
    IF rows = <<>> THEN EmptyBag
    ELSE SetToBag({Head(rows)}) (+) SeqToBag(Tail(rows))

\* A table of the data platform: whether it exists, and the bag of its rows.
NoBagTable == [exists |-> FALSE, rows |-> EmptyBag]

\* Rows an earlier run or another user left in a table.
StaleTable == [exists |-> TRUE, rows |-> SetToBag({[ID |-> 1, STATUS |-> "stale"]})]

\* Session.write_pandas(df, table_name, auto_create_table, overwrite): the
\* table afterwards, or the error it raises when the table is missing and
\* may not be created.
write_pandas(table, df, auto_create_table, overwrite) ==
    IF ~table.exists /\ ~auto_create_table
    THEN [ok |-> FALSE, table |-> table]
    ELSE IF overwrite \/ ~table.exists
         THEN [ok |-> TRUE, table |-> [exists |-> TRUE, rows |-> SeqToBag(df)]]
         ELSE [ok |-> TRUE, table |-> [exists |-> TRUE, rows |-> table.rows (+) SeqToBag(df)]]

\* The same upload with overwrite=False: the rows are appended.
write_pandas_append(table, df) == write_pandas(table, df, TRUE, FALSE).table

\* session.write_pandas(df, table_name=..., auto_create_table=True, overwrite=True)
Upload(table, df) == write_pandas(table, df, TRUE, TRUE).table

\* spd.to_numeric(value, errors='coerce')
to_numeric(x) ==
    CASE x.k = "int" -> x
      [] x.k = "numtext" -> Int_(x.v)
      [] OTHER -> NaN

\* np.floor(x / 365), without abs
floor_days(x) == x \div 365

\* lambda x: np.floor(abs(x) / 365)
age_in_years(x) == (IF x < 0 THEN -x ELSE x) \div 365

\* .apply(lambda ...).astype(int) on one value: a missing value stays missing
\* where the cast does not raise.
AgeOf(x) == IF x.k = "int" THEN Int_(age_in_years(x.v)) ELSE NaN

HasMissing(df, col) == \E k \in 1..Len(df) : df[k][col].k = "nan"

\* DataFrame.count(): for each column, the number of rows that hold a value.
NonMissing(df, col) == Cardinality({k \in 1..Len(df) : df[k][col].k \notin {"nan", "absent"}})
count(df) == [ID |-> Len(df), DAYS_BIRTH |-> NonMissing(df, "DAYS_BIRTH"),
              NAME_INCOME_TYPE |-> Len(df), CODE_GENDER |-> Len(df),
              AMT_INCOME_TOTAL |-> NonMissing(df, "AMT_INCOME_TOTAL"), AGE |-> NonMissing(df, "AGE"),
              AVG_AGE |-> NonMissing(df, "AVG_AGE")]

\* df.drop_duplicates(subset, keep): keep = "first" keeps the first row of
\* each group of equal `subset`, keep = "none" (keep=False) drops every row
\* that has a duplicate.
drop_duplicates(df, subset, keep) ==
    LET kept == {k \in 1..Len(df) :
                   IF keep = "first"
                   THEN \A j \in 1..(k - 1) : df[j][subset] # df[k][subset]
                   ELSE \A j \in 1..Len(df) : j # k => df[j][subset] # df[k][subset]}
        RECURSIVE Pick(_)
        Pick(k) == IF k > Len(df) THEN <<>>
                   ELSE (IF k \in kept THEN <<df[k]>> ELSE <<>>) \o Pick(k + 1)
    IN Pick(1)

drop_all_duplicates(df) == drop_duplicates(df, "ID", "none")

\* No row is dropped.
keep_all_rows(df) == df

\* application_record_df.drop_duplicates('ID')
DropDuplicatesID(df) == drop_duplicates(df, "ID", "first")

(***************************************************************************)
(* groupby, mean, merge and sort_values of pandas.                         *)
(***************************************************************************)
\* The order of the strings of the key columns (Python compares str by code
\* point).
Collation == << "F", "M", "Pensioner", "Working" >>
Rank(s) == CHOOSE i \in 1..Len(Collation) : Collation[i] = s

RECURSIVE GCD(_, _)
GCD(a, b) == IF b = 0 THEN a ELSE GCD(b, a % b)

\* The float sum / n, kept as a fraction in lowest terms.
Float(sum, n) ==
    LET g == GCD(IF sum < 0 THEN -sum ELSE sum, n)
    IN [k |-> "float", v |-> sum \div g, d |-> n \div g]

FloatLess(x, y) == x.v * y.d < y.v * x.d

\* The values of the columns `by` of a row.
KeyOf(row, by) == [i \in 1..Len(by) |-> row[by[i]]]

KeyLess(a, b) ==
    \E i \in 1..Len(a) : /\ \A j \in 1..(i - 1) : a[j] = b[j]
                         /\ Rank(a[i]) < Rank(b[i])

RECURSIVE SortedKeys(_)
SortedKeys(keys) ==
    IF keys = {} THEN <<>>
    ELSE LET m == CHOOSE x \in keys : \A y \in keys \ {x} : KeyLess(x, y)
         IN <<m>> \o SortedKeys(keys \ {m})

\* The rows of df whose key is `key` and that hold a value in column col.
Members(df, by, col, key) ==
    {k \in 1..Len(df) : KeyOf(df[k], by) = key /\ df[k][col].k = "int"}

RECURSIVE SumOf(_, _, _)
SumOf(df, col, rows) ==
    IF rows = {} THEN 0
    ELSE LET k == CHOOSE k \in rows : TRUE
         IN df[k][col].v + SumOf(df, col, rows \ {k})

\* mean() of a column over a group: missing values are skipped, and the mean
\* of no value is NaN.
mean(df, col, rows) ==
    IF rows = {} THEN NaN ELSE Float(SumOf(df, col, rows), Cardinality(rows))

\* df.groupby(by).agg({col: 'mean'}): one group per distinct key, in key
\* order (sort=True).
groupby_mean(df, by, col) ==
    LET keys == SortedKeys({KeyOf(df[k], by) : k \in 1..Len(df)})
    IN [i \in 1..Len(keys) |->
           [key |-> keys[i], agg |-> mean(df, col, Members(df, by, col, keys[i]))]]

\* .reset_index() and the renaming of the aggregated column: the key
\* columns and the column `name`.
reset_index(groups, by, name) ==
    [i \in 1..Len(groups) |->
        [c \in {by[j] : j \in 1..Len(by)} \cup {name} |->
            IF c = name THEN groups[i].agg
            ELSE groups[i].key[CHOOSE j \in 1..Len(by) : by[j] = c]]]

\* df.merge(right, on=by, how='left') for a right frame with one row per
\* key and the one further column `name`.
merge_left(df, right, by, name) ==
    [k \in 1..Len(df) |->
        [df[k] EXCEPT ![name] =
            (CHOOSE r \in {right[i] : i \in 1..Len(right)} :
                KeyOf(r, by) = KeyOf(df[k], by))[name]]]

FloatColumns == {"AVG_INCOME", "AVG_AGE"}

ValueLess(col, x, y) == IF col \in FloatColumns THEN FloatLess(x, y)
                        ELSE Rank(x) < Rank(y)

\* Row a sorts strictly before row b.
Before(a, b, by, asc) ==
    \E i \in 1..Len(by) :
        /\ \A j \in 1..(i - 1) : a[by[j]] = b[by[j]]
        /\ IF asc[i] THEN ValueLess(by[i], a[by[i]], b[by[i]])
           ELSE ValueLess(by[i], b[by[i]], a[by[i]])

\* df.sort_values(by, ascending): rows that compare equal keep their order.
RECURSIVE sort_values(_, _, _)
sort_values(df, by, asc) ==
    IF df = <<>> THEN <<>>
    ELSE LET sorted == sort_values(SubSeq(df, 1, Len(df) - 1), by, asc)
             row == df[Len(df)]
             after == {j \in 1..Len(sorted) : Before(row, sorted[j], by, asc)}
             p == IF after = {} THEN Len(sorted) + 1
                  ELSE CHOOSE j \in after : \A i \in after : j <= i
         IN SubSeq(sorted, 1, p - 1) \o <<row>> \o SubSeq(sorted, p, Len(sorted))

\* ascending=[True, True]
ascending_both == << TRUE, TRUE >>

\* ascending=[True, False]
ascending == << TRUE, FALSE >>

\* The groupby key of the income analysis: 'NAME_INCOME_TYPE' in the
\* notebook, ['NAME_INCOME_TYPE', 'CODE_GENDER'] in its draft.
AnalysisBy == IF notebook = "draft" THEN << "NAME_INCOME_TYPE", "CODE_GENDER" >>
              ELSE << "NAME_INCOME_TYPE" >>

AnalysisCell == IF notebook = "draft" THEN "AVG_INCOME_PER_INCOME_TYPE_GENDER"
                ELSE "AVG_INCOME_PER_INCOME_TYPE"

\* The income analysis of a dataframe.
IncomeAnalysis(df) ==
    sort_values(reset_index(groupby_mean(df, AnalysisBy, "AMT_INCOME_TOTAL"),
                            AnalysisBy, "AVG_INCOME"),
                << "NAME_INCOME_TYPE", "AVG_INCOME" >>, ascending)

\* on=['CODE_GENDER']
AgeByGender == << "CODE_GENDER" >>

\* on=['CODE_GENDER', 'NAME_INCOME_TYPE']
AgeBy == << "CODE_GENDER", "NAME_INCOME_TYPE" >>

\* grouped_df of the draft: the average AGE per gender and income type.
grouped_df(df) == reset_index(groupby_mean(df, AgeBy, "AGE"), AgeBy, "AVG_AGE")

(***************************************************************************)
(* Credit-card notebook: the cells.  Snowpark pandas sends its work to the *)
(* data platform through the active session.                               *)
(***************************************************************************)
\* The cell issues an SDK call and waits for it at position `pos`.
Call(pos) ==
    /\ at' = pos
    /\ inflight' = inflight + 1
    /\ used_sessions' = used_sessions \cup {session}

\* The SDK call the cell waits for completes.
Returned == inflight' = inflight - 1

\* The SDK call the cell waits for completes and the cell's next statement
\* issues another, waited for at position `pos`.
ReturnedThenCall(pos) ==
    /\ inflight > 0
    /\ at' = pos
    /\ inflight' = (inflight - 1) + 1
    /\ used_sessions' = used_sessions \cup {session}

PACKAGE_IMPORTS ==
    /\ CreditCard
    /\ Ready("PACKAGE_IMPORTS")
    /\ Begin /\ EndCell
    /\ UNCHANGED <<notebook, inflight, stdout, sessionVars, ragVars, ccVars>>

\* session = get_active_session()
CREATE_SESSION ==
    /\ Ready("CREATE_SESSION")
    /\ active_session # NoSession
    /\ session' = active_session
    /\ Begin /\ EndCell
    /\ UNCHANGED <<notebook, inflight, stdout, active_session, connections,
                   used_sessions, ragVars, ccVars>>

\* application_record_df = spd.read_csv(...)
IMPORT_CSVS_INTO_DFS ==
    /\ Ready("IMPORT_CSVS_INTO_DFS")
    /\ Begin /\ Call("sdk")
    /\ UNCHANGED <<notebook, cell, error, stdout, active_session, connections,
                   session, ragVars, ccVars>>

\* credit_record_df = spd.read_csv(...)
IMPORT_CSVS_INTO_DFS_credit ==
    /\ Inside("IMPORT_CSVS_INTO_DFS", "sdk")
    /\ ReturnedThenCall("sdk2")
    /\ \E df \in ApplicationFrames : application_record_df' = df
    /\ UNCHANGED <<notebook, cell, executed, error, stdout, active_session,
                   connections, session, ragVars, credit_record_df,
                   APPLICATION_RECORD, CREDIT_RECORD, row_count, count_after,
                   analysis_df>>

IMPORT_CSVS_INTO_DFS_done ==
    /\ Inside("IMPORT_CSVS_INTO_DFS", "sdk2")
    /\ Returned
    /\ \E df \in CreditFrames : credit_record_df' = df
    /\ EndCell
    /\ UNCHANGED <<notebook, executed, stdout, sessionVars, ragVars,
                   application_record_df, APPLICATION_RECORD, CREDIT_RECORD,
                   row_count, count_after,
                   analysis_df>>

\* Cells that compute something from a dataframe and display it:
\* describe(), select_dtypes(), dtypes, nunique(), groupby().agg().
DisplayCells == {"APPLICATION_RECORD_DF", "CREDIT_REPORT_DF", "NUMERIC_COLUMNS",
                 "SCHEMA_EXPLORATION", "CATEGORICAL_COLUMNS",
                 "GET_UNIQUE_CATEGORIES", "REVIEW_TABLE_IN_SNOWFLAKE"}

display_cell ==
    /\ CreditCard
    /\ \E name \in DisplayCells : Ready(name)
    /\ Begin /\ Call("sdk")
    /\ UNCHANGED <<notebook, cell, error, stdout, active_session, connections,
                   session, ragVars, ccVars>>

display_cell_done ==
    /\ \E name \in DisplayCells : Inside(name, "sdk")
    /\ Returned
    /\ stdout' = Append(stdout, CellName)
    /\ EndCell
    /\ UNCHANGED <<notebook, executed, sessionVars, ragVars, ccVars>>

\* session.write_pandas(application_record_df, table_name='APPLICATION_RECORD', ...)
UPLOAD_TO_TABLES ==
    /\ Ready("UPLOAD_TO_TABLES")
    /\ Begin /\ Call("sdk")
    /\ UNCHANGED <<notebook, cell, error, stdout, active_session, connections,
                   session, ragVars, ccVars>>

\* session.write_pandas(credit_record_df, table_name='CREDIT_RECORD', ...)
UPLOAD_TO_TABLES_credit ==
    /\ Inside("UPLOAD_TO_TABLES", "sdk")
    /\ ReturnedThenCall("sdk2")
    /\ APPLICATION_RECORD' = Upload(APPLICATION_RECORD, application_record_df)
    /\ UNCHANGED <<notebook, cell, executed, error, stdout, active_session,
                   connections, session, ragVars, application_record_df,
                   credit_record_df, CREDIT_RECORD, row_count, count_after,
                   analysis_df>>

UPLOAD_TO_TABLES_done ==
    /\ Inside("UPLOAD_TO_TABLES", "sdk2")
    /\ Returned
    /\ CREDIT_RECORD' = Upload(CREDIT_RECORD, credit_record_df)
    /\ EndCell
    /\ UNCHANGED <<notebook, executed, stdout, sessionVars, ragVars,
                   application_record_df, credit_record_df, APPLICATION_RECORD,
                   row_count, count_after,
                   analysis_df>>

\* application_record_df['DAYS_BIRTH'] = spd.to_numeric(..., errors='coerce')
CREATE_AGE_IN_YEARS ==
    /\ Ready("CREATE_AGE_IN_YEARS")
    /\ Begin
    /\ application_record_df' =
          [k \in 1..Len(application_record_df) |->
              [application_record_df[k] EXCEPT !.DAYS_BIRTH = to_numeric(@)]]
    /\ at' = "astype"
    /\ UNCHANGED <<notebook, cell, error, inflight, stdout, sessionVars, ragVars,
                   credit_record_df, APPLICATION_RECORD, CREDIT_RECORD, row_count,
                   count_after,
                   analysis_df>>

\* application_record_df['AGE'] = ...apply(lambda ...).astype(int), then
\* print(application_record_df[['DAYS_BIRTH', 'AGE']].head()).  With a missing
\* DAYS_BIRTH this is the case where the cast leaves the value missing.
CREATE_AGE_IN_YEARS_astype ==
    /\ Inside("CREATE_AGE_IN_YEARS", "astype")
    /\ application_record_df' =
          [k \in 1..Len(application_record_df) |->
              [application_record_df[k] EXCEPT !.AGE = AgeOf(application_record_df[k].DAYS_BIRTH)]]
    /\ Call("sdk")
    /\ UNCHANGED <<notebook, cell, executed, error, stdout, active_session,
                   connections, session, ragVars, credit_record_df,
                   APPLICATION_RECORD, CREDIT_RECORD, row_count, count_after,
                   analysis_df>>

\* astype(int) over a column that holds a missing value: the case where the
\* cast raises (pandas: IntCastingNaNError).
CREATE_AGE_IN_YEARS_cast_error ==
    /\ Inside("CREATE_AGE_IN_YEARS", "astype")
    /\ HasMissing(application_record_df, "DAYS_BIRTH")
    /\ Uncaught("IntCastingNaNError")
    /\ UNCHANGED <<notebook, executed, inflight, stdout, sessionVars, ragVars, ccVars>>

CREATE_AGE_IN_YEARS_done ==
    /\ Inside("CREATE_AGE_IN_YEARS", "sdk")
    /\ Returned
    /\ stdout' = Append(stdout, CellName)
    /\ EndCell
    /\ UNCHANGED <<notebook, executed, sessionVars, ragVars, ccVars>>

\* row_count = application_record_df.count()
COUNT_TOTAL_ROWS ==
    /\ Ready("COUNT_TOTAL_ROWS")
    /\ Begin /\ Call("sdk")
    /\ UNCHANGED <<notebook, cell, error, stdout, active_session, connections,
                   session, ragVars, ccVars>>

\* print(f"Total number of rows: {row_count}")
COUNT_TOTAL_ROWS_done ==
    /\ Inside("COUNT_TOTAL_ROWS", "sdk")
    /\ Returned
    /\ row_count' = count(application_record_df)
    /\ stdout' = Append(stdout, "Total number of rows:")
    /\ EndCell
    /\ UNCHANGED <<notebook, executed, sessionVars, ragVars, application_record_df,
                   credit_record_df, APPLICATION_RECORD, CREDIT_RECORD, count_after,
                   analysis_df>>

\* application_record_df = application_record_df.drop_duplicates('ID')
DROP_DUPLICATES ==
    /\ Ready("DROP_DUPLICATES")
    /\ Begin
    /\ application_record_df' = DropDuplicatesID(application_record_df)
    /\ Call("sdk")
    /\ UNCHANGED <<notebook, cell, error, stdout, active_session, connections,
                   session, ragVars, credit_record_df, APPLICATION_RECORD,
                   CREDIT_RECORD, row_count, count_after,
                   analysis_df>>

\* print(f"Number of rows after dropping duplicates: {application_record_df.count()}")
DROP_DUPLICATES_done ==
    /\ Inside("DROP_DUPLICATES", "sdk")
    /\ Returned
    /\ count_after' = count(application_record_df)
    /\ stdout' = Append(stdout, "Number of rows after dropping duplicates:")
    /\ EndCell
    /\ UNCHANGED <<notebook, executed, sessionVars, ragVars, application_record_df,
                   credit_record_df, APPLICATION_RECORD, CREDIT_RECORD, row_count,
                   analysis_df>>

\* application_record_df = application_record_df.merge(grouped_df, on=[...], how='left')
FIND_AVG_AGE_PER_GENDER_INCOME_TYPE ==
    /\ Ready("FIND_AVG_AGE_PER_GENDER_INCOME_TYPE")
    /\ Begin
    /\ application_record_df' =
          merge_left(application_record_df, grouped_df(application_record_df),
                     AgeBy, "AVG_AGE")
    /\ Call("sdk")
    /\ UNCHANGED <<notebook, cell, error, stdout, active_session, connections,
                   session, ragVars, credit_record_df, APPLICATION_RECORD,
                   CREDIT_RECORD, row_count, count_after, analysis_df>>

\* application_record_df[['CODE_GENDER', 'NAME_INCOME_TYPE', 'AGE', 'AVG_AGE']].head()
FIND_AVG_AGE_PER_GENDER_INCOME_TYPE_done ==
    /\ Inside("FIND_AVG_AGE_PER_GENDER_INCOME_TYPE", "sdk")
    /\ Returned
    /\ stdout' = Append(stdout, CellName)
    /\ EndCell
    /\ UNCHANGED <<notebook, executed, sessionVars, ragVars, ccVars>>

\* analysis_df = application_record_df.groupby(...).agg({'AMT_INCOME_TOTAL': 'mean'}).reset_index()
AVG_INCOME_PER_INCOME_TYPE ==
    /\ CreditCard
    /\ Ready(AnalysisCell)
    /\ Begin /\ Call("sdk")
    /\ UNCHANGED <<notebook, cell, error, stdout, active_session, connections,
                   session, ragVars, ccVars>>

\* analysis_df = analysis_df.sort_values(...); print(analysis_df)
AVG_INCOME_PER_INCOME_TYPE_done ==
    /\ CreditCard
    /\ Inside(AnalysisCell, "sdk")
    /\ Returned
    /\ analysis_df' = IncomeAnalysis(application_record_df)
    /\ stdout' = Append(stdout, "analysis_df")
    /\ EndCell
    /\ UNCHANGED <<notebook, executed, sessionVars, ragVars, application_record_df,
                   credit_record_df, APPLICATION_RECORD, CREDIT_RECORD, row_count,
                   count_after>>

\* session.write_pandas(application_record_df, table_name='APPLICATION_RECORD', ...)
WRITE_TO_SNOWFLAKE ==
    /\ Ready("WRITE_TO_SNOWFLAKE")
    /\ Begin /\ Call("sdk")
    /\ UNCHANGED <<notebook, cell, error, stdout, active_session, connections,
                   session, ragVars, ccVars>>

\* session.table('APPLICATION_RECORD').show()
WRITE_TO_SNOWFLAKE_show ==
    /\ Inside("WRITE_TO_SNOWFLAKE", "sdk")
    /\ ReturnedThenCall("sdk2")
    /\ APPLICATION_RECORD' = Upload(APPLICATION_RECORD, application_record_df)
    /\ UNCHANGED <<notebook, cell, executed, error, stdout, active_session,
                   connections, session, ragVars, application_record_df,
                   credit_record_df, CREDIT_RECORD, row_count, count_after,
                   analysis_df>>

WRITE_TO_SNOWFLAKE_done ==
    /\ Inside("WRITE_TO_SNOWFLAKE", "sdk2")
    /\ Returned
    /\ stdout' = Append(stdout, CellName)
    /\ EndCell
    /\ UNCHANGED <<notebook, executed, sessionVars, ragVars, ccVars>>

\* session.close()
CLOSE_SESSION ==
    /\ Ready("CLOSE_SESSION")
    /\ Begin /\ Call("sdk")
    /\ UNCHANGED <<notebook, cell, error, stdout, active_session, connections,
                   session, ragVars, ccVars>>

CLOSE_SESSION_done ==
    /\ Inside("CLOSE_SESSION", "sdk")
    /\ Returned
    /\ connections' = connections \ {session}
    /\ active_session' = NoSession
    /\ EndCell
    /\ UNCHANGED <<notebook, executed, stdout, session, used_sessions, ragVars, ccVars>>

(***************************************************************************)
(* Runs.                                                                   *)
(***************************************************************************)
\* Tables left by an earlier run of the RAG notebook.
EarlierFiles == Table(<< [id |-> 1, file_name |-> "old.pdf", file_url |-> "s3://old/old.pdf"] >>)

InitKernel ==
    /\ cell = 1 /\ at = "start" /\ executed = <<>> /\ error = NoError
    /\ inflight = 0 /\ stdout = <<>>
    /\ active_session = 1 /\ connections = {active_session}
    /\ session = NoSession /\ used_sessions = {}

InitRag ==
    /\ \/ document_files = NoTable /\ autoincrement = 1
       \/ document_files = EarlierFiles /\ autoincrement = 2
    /\ document_texts = NoTable /\ document_chunks = NoTable
    /\ df_chunks = <<>> /\ nodes = <<>> /\ index = [bound |-> FALSE, nodes |-> <<>>]
    /\ embed_model = Unbound /\ cortex_llm = Unbound
    /\ service_context = [bound |-> FALSE, llm |-> 0, embed |-> 0]
    /\ raw_question = "" /\ raw_response = NoValue /\ response = NoValue
    /\ frame = NoFrame /\ invocations = <<>> /\ calls = <<>> /\ loop = <<>>
    /\ split_text \in [FileUrls -> 0..MaxChunks]

\* The RAG notebook's variables in a run of another notebook.
IdleRag ==
    /\ document_files = NoTable /\ autoincrement = 1
    /\ document_texts = NoTable /\ document_chunks = NoTable
    /\ df_chunks = <<>> /\ nodes = <<>> /\ index = [bound |-> FALSE, nodes |-> <<>>]
    /\ embed_model = Unbound /\ cortex_llm = Unbound
    /\ service_context = [bound |-> FALSE, llm |-> 0, embed |-> 0]
    /\ raw_question = "" /\ raw_response = NoValue /\ response = NoValue
    /\ frame = NoFrame /\ invocations = <<>> /\ calls = <<>> /\ loop = <<>>
    /\ split_text = [u \in FileUrls |-> 0]

NoCount == [ID |-> 0, DAYS_BIRTH |-> 0, NAME_INCOME_TYPE |-> 0, CODE_GENDER |-> 0,
            AMT_INCOME_TOTAL |-> 0, AGE |-> 0, AVG_AGE |-> 0]

NoFrames ==
    /\ application_record_df = <<>> /\ credit_record_df = <<>>
    /\ analysis_df = <<>>
    /\ row_count = NoCount /\ count_after = NoCount

\* The tables do not exist yet, or hold what was left there earlier.
InitCc ==
    /\ NoFrames
    /\ APPLICATION_RECORD \in {NoBagTable, StaleTable}
    /\ CREDIT_RECORD \in {NoBagTable, StaleTable}

IdleCc ==
    /\ NoFrames
    /\ APPLICATION_RECORD = NoBagTable /\ CREDIT_RECORD = NoBagTable

Init ==
    /\ InitKernel
    /\ notebook \in {"rag", "cc", "draft"}
    /\ IF notebook = "rag" THEN InitRag /\ IdleCc ELSE IdleRag /\ InitCc

NextRag ==
    \/ SubmitSql
    \/ create_document_files_table
    \/ insert_document_files
    \/ create_document_texts_table
    \/ create_document_chunks_table
    \/ RunAgain
    \/ SdkCallFails
    \/ definition_cell
    \/ get_active_session
    \/ build_index
    \/ build_index_nodes
    \/ build_index_done
    \/ initialize_llm_predictor
    \/ raw_input_example
    \/ raw_input_example_response
    \/ raw_input_example_except
    \/ raw_input_example_uncaught
    \/ index_query
    \/ index_query_done
    \/ get_text_embedding
    \/ generate
    \/ CortexCompletes
    \/ CortexFails
    \/ LibraryInvokes
    \/ LibraryReceives
    \/ LibraryPropagates
    \/ LibrarySchedules
    \/ aget_text_embedding
    \/ aget_text_embedding_return
    \/ aget_text_embedding_raise

NextCc ==
    \/ PACKAGE_IMPORTS
    \/ CREATE_SESSION
    \/ IMPORT_CSVS_INTO_DFS
    \/ IMPORT_CSVS_INTO_DFS_credit
    \/ IMPORT_CSVS_INTO_DFS_done
    \/ display_cell
    \/ display_cell_done
    \/ UPLOAD_TO_TABLES
    \/ UPLOAD_TO_TABLES_credit
    \/ UPLOAD_TO_TABLES_done
    \/ CREATE_AGE_IN_YEARS
    \/ CREATE_AGE_IN_YEARS_astype
    \/ CREATE_AGE_IN_YEARS_cast_error
    \/ CREATE_AGE_IN_YEARS_done
    \/ COUNT_TOTAL_ROWS
    \/ COUNT_TOTAL_ROWS_done
    \/ DROP_DUPLICATES
    \/ DROP_DUPLICATES_done
    \/ FIND_AVG_AGE_PER_GENDER_INCOME_TYPE
    \/ FIND_AVG_AGE_PER_GENDER_INCOME_TYPE_done
    \/ AVG_INCOME_PER_INCOME_TYPE
    \/ AVG_INCOME_PER_INCOME_TYPE_done
    \/ WRITE_TO_SNOWFLAKE
    \/ WRITE_TO_SNOWFLAKE_show
    \/ WRITE_TO_SNOWFLAKE_done
    \/ CLOSE_SESSION
    \/ CLOSE_SESSION_done

Next == NextRag \/ NextCc \/ NameError

Spec == Init /\ [][Next]_vars

(***************************************************************************)
(* Properties.                                                             *)
(***************************************************************************)
InSeq(x, s) == \E i \in 1..Len(s) : s[i] = x

CellIndex(name) == CHOOSE i \in 1..Len(Cells) : Cells[i] = name

\* The cell `name` has ended normally.
Past(name) == cell > CellIndex(name)

\* C1: in the raw-input cell an Exception raised by cortex_llm.generate is
\* handled by the cell: while the exception is in the cell the except clause
\* takes it and nothing lets it out; afterwards raw_question is still bound,
\* the run is not stopped at that cell, and the RAG query cell has been or
\* can be begun.
C1_RawInputErrorIsCaught ==
    \A i \in 1..Len(invocations) :
        ( /\ invocations[i].caller = "try"
          /\ invocations[i].outcome = "raised"
          /\ invocations[i].exc \in ExceptionClasses )
        => /\ raw_question = "What is Snowflake?"
           /\ error.cell # "raw-input-example"
           /\ IF frame.caller = "try"
              THEN ENABLED raw_input_example_except
                   /\ ~ENABLED raw_input_example_uncaught
              ELSE /\ InSeq("Error generating response:", stdout)
                   /\ Past("raw-input-example")
                   /\ InSeq("rag-output-example", executed) \/ ENABLED index_query

C1_Witness ==
    /\ InSeq("Error generating response:", stdout)
    /\ InSeq("rag-output-example", executed)
    /\ raw_question = "What is Snowflake?"

FnOf(method) ==
    IF method = "get_text_embedding" THEN "CORTEX_EMBED" ELSE "CORTEX_GENERATE_TEXT"

\* C2: the external Cortex calls are, one for one and in order, the wrapper
\* invocations: the k-th call is the k-th invocation's function over the
\* one-row dataframe holding its text, and only an invocation that has not
\* reached collect() yet has no call.
C2_OneCallPerInvocation ==
    /\ Len(calls) = Len(invocations) - (IF frame.at = "entered" THEN 1 ELSE 0)
    /\ \A k \in 1..Len(calls) :
          /\ calls[k].fn = FnOf(invocations[k].method)
          /\ calls[k].rows = <<invocations[k].text>>
          /\ invocations[k].calls = 1

C2_Witness ==
    \E i, j \in 1..Len(invocations) :
        /\ i < j
        /\ invocations[i].method = invocations[j].method
        /\ invocations[i].text = invocations[j].text
        /\ invocations[j].outcome = "returned"
        /\ calls[i] = calls[j]

\* C3: an invocation never issues a second call; one whose call failed has
\* issued exactly one call, has no value, and its exception is with its
\* caller (raised in the cell that called it, or already handled there);
\* the wrappers still hold the session they were created with.
C3_FailurePropagates ==
    /\ \A i \in 1..Len(invocations) :
          /\ invocations[i].calls <= 1
          /\ invocations[i].outcome = "raised" =>
                /\ invocations[i].calls = 1
                /\ invocations[i].value = NoValue
                /\ invocations[i].exc \in Raisable
                /\ \/ i = Last /\ frame.at = "raised" /\ frame.exc = invocations[i].exc
                   \/ i = Last /\ frame = NoFrame /\ error.exc = invocations[i].exc
                   \/ /\ invocations[i].caller = "try"
                      /\ InSeq("Error generating response:", stdout)
    /\ embed_model.bound => embed_model.session = session
    /\ cortex_llm.bound => cortex_llm.session = session

C3_Witness ==
    /\ Len(invocations) > 0
    /\ invocations[Last].outcome = "raised"
    /\ invocations[Last].method = "get_text_embedding"
    /\ frame = NoFrame
    /\ error = [cell |-> "build-index", exc |-> "SnowparkSQLException"]

\* C4: the code cells begun so far are a prefix of the notebook's code cells
\* in document order, a cell is begun only when nothing of an earlier cell is
\* still running, and at most one SDK call is in progress.
C4_OneCellOneCallAtATime ==
    /\ inflight <= 1
    /\ Len(executed) <= Len(Cells)
    /\ executed = SubSeq(Cells, 1, Len(executed))
    /\ at = "start" => inflight = 0 /\ frame = NoFrame /\ Len(executed) = cell - 1
    /\ at # "start" => Len(executed) = cell

C4_Witness ==
    /\ Inside("rag-output-example", "lib")
    /\ frame.at = "blocked"
    /\ inflight = 1
    /\ Len(calls) > 1

\* C5: no session is created: the only session object is the one that was
\* active when the run began; `session`, the two wrappers and every SDK call
\* of the notebook use that object.
C5_OneSessionHandle ==
    /\ Cardinality((connections \cup used_sessions \cup {session}) \ {NoSession}) <= 1
    /\ notebook = "rag" =>
          /\ active_session # NoSession
          /\ connections = {active_session}
          /\ used_sessions \subseteq {active_session}
          /\ session # NoSession => session = active_session
    /\ embed_model.bound => embed_model.session = session /\ session # NoSession
    /\ cortex_llm.bound => cortex_llm.session = session /\ session # NoSession
    /\ \A k \in 1..Len(calls) : calls[k].session = session

C5_Witness ==
    /\ embed_model.bound /\ cortex_llm.bound
    /\ \E k \in 1..Len(calls) : calls[k].fn = "CORTEX_EMBED"
    /\ \E k \in 1..Len(calls) : calls[k].fn = "CORTEX_GENERATE_TEXT"
    /\ session = active_session
    /\ Len(df_chunks) > 0

AsTable(df) == [exists |-> TRUE, rows |-> SeqToBag(df)]

\* C7: once a write_pandas(..., auto_create_table=True, overwrite=True) has
\* completed the table exists and holds exactly the dataframe's rows,
\* whatever it held before; and uploading twice gives what uploading once
\* gives.
C7_UploadReplaces ==
    notebook = "cc" =>
       /\ Inside("UPLOAD_TO_TABLES", "sdk2") =>
             APPLICATION_RECORD = AsTable(application_record_df)
       /\ Ready("CREATE_AGE_IN_YEARS") =>
             /\ APPLICATION_RECORD = AsTable(application_record_df)
             /\ CREDIT_RECORD = AsTable(credit_record_df)
       /\ Inside("WRITE_TO_SNOWFLAKE", "sdk2") =>
             APPLICATION_RECORD = AsTable(application_record_df)
       /\ \A T \in {APPLICATION_RECORD, CREDIT_RECORD} :
          \A df \in {application_record_df, credit_record_df} :
             Upload(Upload(T, df), df) = Upload(T, df)

C7_Witness ==
    /\ Inside("WRITE_TO_SNOWFLAKE", "sdk2")
    /\ Len(application_record_df) > 0
    /\ APPLICATION_RECORD = AsTable(application_record_df)
    /\ CREDIT_RECORD.exists

IdsOf(df) == {df[k].ID : k \in 1..Len(df)}
RowsOf(df) == {df[k] : k \in 1..Len(df)}
CountLeq(a, b) ==
    /\ a.ID <= b.ID /\ a.DAYS_BIRTH <= b.DAYS_BIRTH
    /\ a.NAME_INCOME_TYPE <= b.NAME_INCOME_TYPE /\ a.AGE <= b.AGE
    /\ a.CODE_GENDER <= b.CODE_GENDER /\ a.AMT_INCOME_TOTAL <= b.AMT_INCOME_TOTAL
    /\ a.AVG_AGE <= b.AVG_AGE

\* C8: the DROP_DUPLICATES step leaves no two rows with the same ID, keeps
\* every ID, keeps only rows of its input, unchanged, and the count it prints
\* is at most, column by column, the count printed by COUNT_TOTAL_ROWS.
C8_DropDuplicates ==
    [][ /\ ( notebook = "cc" /\ CellName = "DROP_DUPLICATES"
             /\ at = "start" /\ at' = "sdk" ) =>
            /\ \A i, j \in 1..Len(application_record_df') :
                  i # j => application_record_df'[i].ID # application_record_df'[j].ID
            /\ IdsOf(application_record_df') = IdsOf(application_record_df)
            /\ RowsOf(application_record_df') \subseteq RowsOf(application_record_df)
        /\ ( notebook = "cc" /\ CellName = "DROP_DUPLICATES"
             /\ at = "sdk" /\ at' = "start" ) =>
            /\ count_after' = count(application_record_df)
            /\ CountLeq(count_after', row_count) ]_vars

C8_Witness ==
    /\ notebook = "cc"
    /\ Ready("NUMERIC_COLUMNS")
    /\ count_after.ID = 1 /\ row_count.ID = 2
    /\ count_after.DAYS_BIRTH < row_count.DAYS_BIRTH

\* C9: in the CREATE_AGE_IN_YEARS step the first statement changes only
\* DAYS_BIRTH and the second only AGE; a row whose DAYS_BIRTH is the integer d
\* gets the integer AGE >= 0 with 365 * AGE <= |d| < 365 * (AGE + 1).
C9_AgeInYears ==
    [][ ( notebook = "cc" /\ CellName = "CREATE_AGE_IN_YEARS" /\ at' # at ) =>
        LET old == application_record_df
            new == application_record_df'
            abs(d) == IF d < 0 THEN 0 - d ELSE d
        IN /\ <<credit_record_df', APPLICATION_RECORD', CREDIT_RECORD'>>
                = <<credit_record_df, APPLICATION_RECORD, CREDIT_RECORD>>
           /\ Len(new) = Len(old)
           /\ \A k \in 1..Len(old) :
                 /\ new[k].ID = old[k].ID
                 /\ new[k].NAME_INCOME_TYPE = old[k].NAME_INCOME_TYPE
                 /\ at = "start" => new[k].AGE = old[k].AGE
                 /\ old[k].DAYS_BIRTH.k = "int" => new[k].DAYS_BIRTH = old[k].DAYS_BIRTH
                 /\ at = "astype" =>
                       /\ new[k].DAYS_BIRTH = old[k].DAYS_BIRTH
                       /\ old[k].DAYS_BIRTH.k = "int" =>
                             /\ new[k].AGE.k = "int"
                             /\ new[k].AGE.v >= 0
                             /\ 365 * new[k].AGE.v <= abs(old[k].DAYS_BIRTH.v)
                             /\ abs(old[k].DAYS_BIRTH.v) < 365 * (new[k].AGE.v + 1)
                 /\ at = "sdk" => new[k] = old[k] ]_vars

C9_Witness ==
    /\ notebook = "cc"
    /\ Ready("COUNT_TOTAL_ROWS")
    /\ \E k \in 1..Len(application_record_df) :
          /\ application_record_df[k].DAYS_BIRTH = Int_(-731)
          /\ application_record_df[k].AGE = Int_(2)
    /\ \E k \in 1..Len(application_record_df) :
          /\ application_record_df[k].DAYS_BIRTH = Int_(400)
          /\ application_record_df[k].AGE = Int_(1)

\* C10 (as claimed): whatever DAYS_BIRTH holds, the cast never stops the
\* CREATE_AGE_IN_YEARS step, and once the step has ended AGE is an integer in
\* every row.
C10_AgeAlwaysInteger ==
    notebook = "cc" =>
       /\ error.exc # "IntCastingNaNError"
       /\ Past("CREATE_AGE_IN_YEARS") =>
             \A k \in 1..Len(application_record_df) :
                 application_record_df[k].AGE.k = "int"

\* C11 (as claimed): every code cell begun reads only names that the cells
\* before it have bound, and no run stops on a NameError.
C11_NamesAreBound ==
    /\ \A i \in 1..Len(executed) :
          Free(executed[i]) \subseteq UNION {Binds(executed[j]) : j \in 1..(i - 1)}
    /\ error.exc # "NameError"

\* C12: an exception that leaves a cell stops the run in that cell: the step
\* that raises it changes no table and no notebook variable, the kernel stays
\* in the failing cell, and from then on nothing happens at all; only the
\* raw-input cell holds back an exception, and only one of class Exception;
\* an exception a wrapper raises under the indexing library goes to the cell.
\* When the first write_pandas of UPLOAD_TO_TABLES fails, neither table has
\* been written.
C12_UncaughtStopsRun ==
    [][ /\ error.exc # "none" => UNCHANGED vars
        /\ (error.exc = "none" /\ error'.exc # "none") =>
              /\ error'.cell = CellName
              /\ cell' = cell /\ executed' \in {executed, Append(executed, CellName)}
              /\ UNCHANGED <<tableVars, indexVars, wrapperVars, queryVars, ccVars>>
              /\ CellName = "raw-input-example" => error'.exc \notin ExceptionClasses
              /\ (CellName = "UPLOAD_TO_TABLES" /\ at = "sdk") =>
                    /\ APPLICATION_RECORD' \in {NoBagTable, StaleTable}
                    /\ CREDIT_RECORD' \in {NoBagTable, StaleTable}
        /\ (error.exc = "none" /\ frame.at = "raised") =>
              \/ error'.exc = frame.exc
              \/ CellName = "raw-input-example" /\ frame.exc \in ExceptionClasses
      ]_vars

C12_Witness ==
    /\ error = [cell |-> "use-case-1", exc |-> "SnowparkSQLException"]
    /\ response = <<"answer to", "What is Snowflake?">>
    /\ document_chunks.exists /\ index.bound
    /\ ~InSeq("use-case-2-code", executed)

\* C13: a coroutine of aget_text_embedding(text) that has been run is one
\* invocation of get_text_embedding(text); when done it has returned what
\* get_text_embedding(text) returns and has issued exactly one CORTEX_EMBED
\* call over the one-row dataframe [[text]]; at most one coroutine is running,
\* at most one call is in flight, and a coroutine is started only when every
\* earlier invocation has ended, so the calls of two coroutines never overlap.
C13_AgetIsGetTextEmbedding ==
    /\ \A i \in 1..Len(loop) :
          LET c == loop[i] IN
          /\ c.state = "scheduled" => c.invocation = 0
          /\ c.state # "scheduled" =>
                /\ c.invocation \in 1..Len(invocations)
                /\ invocations[c.invocation].method = "get_text_embedding"
                /\ invocations[c.invocation].text = c.text
                /\ invocations[c.invocation].caller = "aget"
                /\ invocations[c.invocation].calls <= 1
                /\ \A j \in 1..Len(loop) : loop[j].invocation = c.invocation => j = i
          /\ c.state = "running" => frame.caller = "aget" /\ c.invocation = Last
          /\ c.state = "done" =>
                /\ c.value = ResultOf("get_text_embedding", c.text)
                /\ invocations[c.invocation].calls = 1
                /\ invocations[c.invocation].outcome = "returned"
                /\ calls[c.invocation] =
                      [fn |-> "CORTEX_EMBED", rows |-> <<c.text>>, session |-> session]
    /\ Cardinality(Running) <= 1
    /\ inflight <= 1
    /\ \A k \in 1..(Len(invocations) - 1) : invocations[k].outcome # "pending"

C13_Witness ==
    /\ Len(loop) = 2
    /\ loop[1].state = "done" /\ loop[2].state = "done"
    /\ loop[1].invocation # loop[2].invocation
    /\ Len(calls) = 2

\* C14: once the loop of the index-building cell has run, nodes has one
\* entry per row of DOCUMENT_CHUNKS as read into df_chunks, in row order: the
\* k-th node carries the k-th row's CHUNK_TEXT as text, str(ID) as doc_id and
\* CHUNK_ID as extra_info['chunk_id']; no rows give no nodes; and the nodes
\* list is built once and not touched again.
C14_OneNodePerRow ==
    [][ /\ (CellName = "build-index" /\ at = "sdk" /\ at' = "lib") =>
              /\ df_chunks' = document_chunks.rows
              /\ Len(nodes') = Len(document_chunks.rows)
              /\ \A k \in 1..Len(document_chunks.rows) :
                    /\ nodes'[k].text = document_chunks.rows[k].CHUNK_TEXT
                    /\ nodes'[k].doc_id = <<"str", document_chunks.rows[k].ID>>
                    /\ nodes'[k].extra_info.chunk_id = document_chunks.rows[k].CHUNK_ID
              /\ document_chunks.rows = <<>> => nodes' = <<>>
        /\ ~(CellName = "build-index" /\ at = "sdk") => nodes' = nodes
        /\ (CellName = "build-index" /\ at = "lib" /\ at' = "start") =>
              index'.nodes = nodes
      ]_vars

C14_Witness ==
    /\ notebook = "rag" /\ Past("build-index")
    /\ Len(nodes) = 2
    /\ nodes[1].doc_id # nodes[2].doc_id
    /\ nodes[2].extra_info.chunk_id = df_chunks[2].CHUNK_ID
    /\ index.nodes = nodes

\* C17: however often the four data-preparation cells have been run, in
\* order, and whatever the tables held before: after the insert cell
\* document_files holds exactly the three inserted documents with the ids
\* 1, 2, 3; after the parse cell document_texts holds one text per document;
\* after the split cell document_chunks holds the chunks of those texts; so
\* a later pass leaves the tables the first pass left.
C17_DataPreparationIsIdempotent ==
    notebook = "rag" =>
       LET files == [k \in 1..Len(InsertedFiles) |->
                       [id |-> k, file_name |-> InsertedFiles[k].file_name,
                        file_url |-> InsertedFiles[k].file_url]]
           texts == [k \in 1..Len(InsertedFiles) |->
                       [id |-> k, content |-> PARSE_DOCUMENT(InsertedFiles[k].file_url)]]
       IN /\ Past("insert-document-files") =>
                /\ document_files = Table(files)
                /\ \A i, j \in 1..Len(document_files.rows) :
                      i # j => document_files.rows[i].id # document_files.rows[j].id
                /\ \A k \in 1..Len(document_files.rows) :
                      document_files.rows[k] \notin RowsOf(EarlierFiles.rows)
          /\ Past("create-document-texts-table") => document_texts = Table(texts)
          /\ Past("create-document-chunks-table") =>
                document_chunks = Table(Flatten(texts, 1))

C17_Witness ==
    /\ notebook = "rag"
    /\ Ready("create-document-texts-table")
    /\ document_chunks.exists /\ Len(document_chunks.rows) > 0
    /\ Len(document_files.rows) = 3
    /\ document_files.rows[3].id = 3

\* C18: when the published credit-card notebook has run to its end,
\* APPLICATION_RECORD holds exactly the rows of the transformed dataframe:
\* every row has an AGE column, no two rows have the same ID, and no row as
\* first uploaded (without AGE) is left; CREDIT_RECORD holds exactly the rows
\* of credit_record_df; and once the upload cell has ended no step changes
\* credit_record_df or CREDIT_RECORD.
C18_FinalTables ==
    [][ /\ (notebook = "cc" /\ cell' > Len(CcCells)) =>
              /\ APPLICATION_RECORD' = AsTable(application_record_df')
              /\ \A r \in BagToSet(APPLICATION_RECORD'.rows) : r.AGE # Absent
              /\ \A i, j \in 1..Len(application_record_df') :
                    i # j => application_record_df'[i].ID # application_record_df'[j].ID
              /\ CREDIT_RECORD' = AsTable(credit_record_df')
        /\ (CreditCard /\ Past("IMPORT_CSVS_INTO_DFS")) =>
              credit_record_df' = credit_record_df
        /\ (CreditCard /\ Past("UPLOAD_TO_TABLES")) =>
              /\ CREDIT_RECORD' = CREDIT_RECORD
              /\ CREDIT_RECORD = AsTable(credit_record_df)
      ]_vars

C18_Witness ==
    /\ notebook = "cc" /\ cell > Len(CcCells)
    /\ row_count.ID = 2 /\ count_after.ID = 1
    /\ BagCardinality(APPLICATION_RECORD.rows) = 1
    /\ BagCardinality(CREDIT_RECORD.rows) = 2
    /\ \A r \in BagToSet(APPLICATION_RECORD.rows) : r.AGE.k = "int"

\* C19: in the published credit-card notebook no SDK call is issued before
\* get_active_session() has returned, every call goes through the session
\* it returned, while any call but close() itself is in flight the session
\* is open, and once the session is closed the run is over: CLOSE_SESSION
\* was the last cell begun and nothing is in flight.
C19_SessionUseIsBracketed ==
    notebook = "cc" =>
       /\ inflight > 0 =>
             /\ session # NoSession
             /\ session \in connections
       /\ used_sessions # {} => Past("CREATE_SESSION") /\ used_sessions = {session}
       /\ InSeq("CLOSE_SESSION", executed) =>
             executed[Len(executed)] = "CLOSE_SESSION"
       /\ (session # NoSession /\ session \notin connections) =>
             /\ cell > Len(CcCells)
             /\ inflight = 0
             /\ executed[Len(executed)] = "CLOSE_SESSION"

C19_Witness ==
    /\ notebook = "cc" /\ cell > Len(CcCells)
    /\ session # NoSession /\ session \notin connections
    /\ used_sessions = {session}
    /\ APPLICATION_RECORD.exists

====
